---- MODULE Spec2Model ----
(***************************************************************************)
(* A model of httpexpect's failure-propagation core: the chain (reporter   *)
(* plus failed flag), the Number and Boolean wrappers of number.go and     *)
(* boolean.go, the narrowing / navigation of Value and Array that derive  *)
(* one wrapper from another, and the Expect of expect.go with its Config.  *)
(*                                                                         *)
(* float64 values are [nan, h]: h counts halves (h = 2 is 1.0, h = 1 is    *)
(* 0.5), nan is the IEEE not-a-number.  An operand of interface{} type is  *)
(* [type, i, nan, s]: the Go type's name and the raw value as that type    *)
(* holds it (an integer for the integer types, a count of halves for the   *)
(* float types, the text for a string).                                    *)
(***************************************************************************)
EXTENDS Integers, Sequences, FiniteSets, TLC

\* Bounds: how many Numbers and Booleans a run constructs, how many Values
\* it constructs, and how many wrappers a run over documents holds in all.
MaxWrappers == 2

MaxValues == 1

MaxDerived == 3

VARIABLES reporter, ws, last, expect

vars == <<reporter, ws, last, expect>>

(***************************************************************************)
(* Values                                                                  *)
(***************************************************************************)

Reporters == {"r1"}

F64(nan, h) == [nan |-> nan, h |-> h]

NaN == F64(TRUE, 0)

\* Go's float64 comparisons (IEEE 754: every ordered comparison with a NaN
\* is false, and != is the negation of ==).
FEq(a, b) == ~a.nan /\ ~b.nan /\ a.h = b.h

FNe(a, b) == ~(~a.nan /\ ~b.nan /\ a.h = b.h)

FGt(a, b) == ~a.nan /\ ~b.nan /\ a.h > b.h

FGe(a, b) == ~a.nan /\ ~b.nan /\ a.h >= b.h

FLt(a, b) == ~a.nan /\ ~b.nan /\ a.h < b.h

FLe(a, b) == ~a.nan /\ ~b.nan /\ a.h <= b.h

\* A wrapper's payload: a float64 (Number), a bool (Boolean), or a node of
\* the decoded document (Value, Array, String, Object); the fields a type
\* does not use hold Go's zero value.
NumberValue(f) == [node |-> 0, nan |-> f.nan, h |-> f.h, b |-> FALSE]

BoolValue(b) == [node |-> 0, nan |-> FALSE, h |-> 0, b |-> b]

NodeValue(id) == [node |-> id, nan |-> FALSE, h |-> 0, b |-> FALSE]

Arg(type, i, nan) == [type |-> type, i |-> i, nan |-> nan, s |-> ""]

StrArg(s) == [type |-> "string", i |-> 0, nan |-> FALSE, s |-> s]

BoolArg(v) == Arg("bool", IF v THEN 1 ELSE 0, FALSE)

IntTypes == {"int", "int32"}

FloatTypes == {"float32", "float64"}

(***************************************************************************)
(* chain                                                                   *)
(*                                                                         *)
(* A call runs in a context: the chain it works on, the Errorf calls it    *)
(* has made (the reporters, in order), how many operands it has            *)
(* canonicalized, how many comparisons of the payload it has done, and     *)
(* the steps it has taken, in order: "canon" of an operand, "cmp", "fail". *)
(***************************************************************************)

NoArg == Arg("none", 0, FALSE)

Step(do, of) == [do |-> do, of |-> of]

makeChain(r) == [reporter |-> r, failed |-> FALSE]

Enter(chain) ==
    [chain |-> chain, errorf |-> <<>>, canon |-> 0, cmp |-> 0, steps |-> <<>>]

\* chain.fail: marks the chain failed and invokes the reporter, once per call.
fail(ctx) ==
    [ctx EXCEPT !.chain.failed = TRUE,
                !.errorf = Append(@, ctx.chain.reporter),
                !.steps = Append(@, Step("fail", NoArg))]

\* The float64 a numeric operand converts to.
ToFloat64(value) ==
    IF value.type \in IntTypes THEN F64(FALSE, 2 * value.i)
    ELSE F64(value.nan, IF value.nan THEN 0 ELSE value.i)

\* canonNumber(chain, number) -> (f, ok)
canonNumber(ctx, number) ==
    LET c == [ctx EXCEPT !.canon = @ + 1,
                         !.steps = Append(@, Step("canon", number))] IN
    IF number.type \in IntTypes \cup FloatTypes
    THEN [ctx |-> c, f |-> ToFloat64(number), ok |-> TRUE]
    ELSE [ctx |-> fail(c), f |-> F64(FALSE, 0), ok |-> FALSE]

Compared(ctx) ==
    [ctx EXCEPT !.cmp = @ + 1, !.steps = Append(@, Step("cmp", NoArg))]

(***************************************************************************)
(* Number (number.go)                                                      *)
(***************************************************************************)

\* Faulty variant: the flag is assigned from the comparison instead of only set.
NumberEqual_AssignsFlag(n, value) ==
    LET r == canonNumber(Enter(n.chain), value) IN
    IF ~r.ok THEN r.ctx
    ELSE IF ~FEq(n.value, r.f) THEN fail(Compared(r.ctx))
    ELSE [Compared(r.ctx) EXCEPT !.chain.failed = FALSE]

NumberEqual(n, value) ==
    LET r == canonNumber(Enter(n.chain), value) IN
    IF ~r.ok THEN r.ctx
    ELSE IF ~FEq(n.value, r.f) THEN fail(Compared(r.ctx))
    ELSE Compared(r.ctx)

\* Faulty variant: the body of Equal, copied with its condition.
NumberNotEqual_CopiedEqual(n, value) ==
    LET r == canonNumber(Enter(n.chain), value) IN
    IF ~r.ok THEN r.ctx
    ELSE IF ~FEq(n.value, r.f) THEN fail(Compared(r.ctx))
    ELSE Compared(r.ctx)

NumberNotEqual(n, value) ==
    LET r == canonNumber(Enter(n.chain), value) IN
    IF ~r.ok THEN r.ctx
    ELSE IF ~FNe(n.value, r.f) THEN fail(Compared(r.ctx))
    ELSE Compared(r.ctx)

\* Faulty variant: the ok result of canonNumber is ignored.
NumberGt_IgnoresOk(n, value) ==
    LET r == canonNumber(Enter(n.chain), value) IN
    IF ~FGt(n.value, r.f) THEN fail(Compared(r.ctx))
    ELSE Compared(r.ctx)

NumberGt(n, value) ==
    LET r == canonNumber(Enter(n.chain), value) IN
    IF ~r.ok THEN r.ctx
    ELSE IF ~FGt(n.value, r.f) THEN fail(Compared(r.ctx))
    ELSE Compared(r.ctx)

\* Faulty variant: > for >=.
NumberGe_Strict(n, value) ==
    LET r == canonNumber(Enter(n.chain), value) IN
    IF ~r.ok THEN r.ctx
    ELSE IF ~FGt(n.value, r.f) THEN fail(Compared(r.ctx))
    ELSE Compared(r.ctx)

NumberGe(n, value) ==
    LET r == canonNumber(Enter(n.chain), value) IN
    IF ~r.ok THEN r.ctx
    ELSE IF ~FGe(n.value, r.f) THEN fail(Compared(r.ctx))
    ELSE Compared(r.ctx)

\* Faulty variant: no return after the operand is found not numeric.
NumberLt_NoReturn(n, value) ==
    LET r == canonNumber(Enter(n.chain), value) IN
    IF ~FLt(n.value, r.f) THEN fail(Compared(r.ctx))
    ELSE Compared(r.ctx)

NumberLt(n, value) ==
    LET r == canonNumber(Enter(n.chain), value) IN
    IF ~r.ok THEN r.ctx
    ELSE IF ~FLt(n.value, r.f) THEN fail(Compared(r.ctx))
    ELSE Compared(r.ctx)

\* Faulty variant: < for <=.
NumberLe_Strict(n, value) ==
    LET r == canonNumber(Enter(n.chain), value) IN
    IF ~r.ok THEN r.ctx
    ELSE IF ~FLt(n.value, r.f) THEN fail(Compared(r.ctx))
    ELSE Compared(r.ctx)

NumberLe(n, value) ==
    LET r == canonNumber(Enter(n.chain), value) IN
    IF ~r.ok THEN r.ctx
    ELSE IF ~FLe(n.value, r.f) THEN fail(Compared(r.ctx))
    ELSE Compared(r.ctx)

\* Faulty variant: no return after min is found not numeric.
NumberInRange_NoReturn(n, min, max) ==
    LET a == canonNumber(Enter(n.chain), min)
        b == canonNumber(a.ctx, max) IN
    IF ~a.ok \/ ~b.ok THEN b.ctx
    ELSE IF ~(FGe(n.value, a.f) /\ FLe(n.value, b.f))
         THEN fail(Compared(b.ctx))
         ELSE Compared(b.ctx)

\* Faulty variant: the bounds are exclusive.
NumberInRange_Exclusive(n, min, max) ==
    LET a == canonNumber(Enter(n.chain), min) IN
    IF ~a.ok THEN a.ctx
    ELSE LET b == canonNumber(a.ctx, max) IN
         IF ~b.ok THEN b.ctx
         ELSE IF ~(FGt(n.value, a.f) /\ FLt(n.value, b.f))
              THEN fail(Compared(b.ctx))
              ELSE Compared(b.ctx)

\* Faulty variant: max is canonicalized before min.
NumberInRange_MaxFirst(n, min, max) ==
    LET b == canonNumber(Enter(n.chain), max) IN
    IF ~b.ok THEN b.ctx
    ELSE LET a == canonNumber(b.ctx, min) IN
         IF ~a.ok THEN a.ctx
         ELSE IF ~(FGe(n.value, a.f) /\ FLe(n.value, b.f))
              THEN fail(Compared(a.ctx))
              ELSE Compared(a.ctx)

NumberInRange(n, min, max) ==
    LET a == canonNumber(Enter(n.chain), min) IN
    IF ~a.ok THEN a.ctx
    ELSE LET b == canonNumber(a.ctx, max) IN
         IF ~b.ok THEN b.ctx
         ELSE IF ~(FGe(n.value, a.f) /\ FLe(n.value, b.f))
              THEN fail(Compared(b.ctx))
              ELSE Compared(b.ctx)

\* Faulty variant: a failed Number gives the zero value.
NumberRaw_ZeroWhenFailed(n) ==
    IF n.chain.failed THEN F64(FALSE, 0) ELSE F64(n.value.nan, n.value.h)

\* Raw returns the float64 attached to the Number.
NumberRaw(n) == F64(n.value.nan, n.value.h)

(***************************************************************************)
(* Boolean (boolean.go)                                                    *)
(***************************************************************************)

BooleanRaw(b) == b.value.b

BooleanEqual(b, value) ==
    IF ~(b.value.b = value) THEN fail(Compared(Enter(b.chain)))
    ELSE Compared(Enter(b.chain))

BooleanNotEqual(b, value) ==
    IF ~(b.value.b # value) THEN fail(Compared(Enter(b.chain)))
    ELSE Compared(Enter(b.chain))

\* Faulty variant: True delegates to Equal(false).
BooleanTrue_Negated(b) == BooleanEqual(b, FALSE)

BooleanTrue(b) == BooleanEqual(b, TRUE)

BooleanFalse(b) == BooleanEqual(b, FALSE)

(***************************************************************************)
(* State: the wrappers created so far, and the last call with its effects. *)
(***************************************************************************)

Wrapper(type, chain, value, parent) ==
    [type |-> type, chain |-> chain, value |-> value, parent |-> parent]

\* Config: a nil Client or Reporter is "nil", nil Printers the empty list.
Config(BaseURL, Client, Reporter, Printers) ==
    [BaseURL |-> BaseURL, Client |-> Client, Reporter |-> Reporter,
     Printers |-> Printers]

NoClient == "nil"

NoReporter == "nil"

DefaultClient == "http.DefaultClient"

\* An Expect holds its Config; NoExpect is the nil *Expect.
Expect(config) == [nil |-> FALSE, config |-> config]

NoExpect == [nil |-> TRUE, config |-> Config("", NoClient, NoReporter, <<>>)]

\* A Request holds the config it was built with and its http.Method and url.
Request(config, method, url) ==
    [nil |-> FALSE, config |-> config, method |-> method, url |-> url]

NoRequest ==
    [nil |-> TRUE, config |-> NoExpect.config, method |-> "", url |-> ""]

\* A call: the method, its receiver (0 for a constructor), its operands, the
\* receiver's failed flag and payload before it, what it did, and the
\* wrapper it returned.  A call on an Expect has it in e (WithConfig the one
\* it returned), the Request it built in req, and panic when it panicked.
Call(op, w, args, pre, value, ctx, ret) ==
    [op |-> op, w |-> w, args |-> args, pre |-> pre, value |-> value,
     errorf |-> ctx.errorf, canon |-> ctx.canon, cmp |-> ctx.cmp,
     steps |-> ctx.steps, ret |-> ret,
     e |-> NoExpect, req |-> NoRequest, panic |-> FALSE]

NoCall ==
    [op |-> "none", w |-> 0, args |-> <<>>, pre |-> FALSE, value |-> NodeValue(0),
     errorf |-> <<>>, canon |-> 0, cmp |-> 0, steps |-> <<>>, ret |-> 0,
     e |-> NoExpect, req |-> NoRequest, panic |-> FALSE]

\* A test makes its reporter first; no wrapper and no Expect exist yet.
Init ==
    /\ reporter \in Reporters
    /\ ws = <<>>
    /\ last = NoCall
    /\ expect = NoExpect

\* A constructor returns a new root wrapper.
Construct(op, wrapper, args) ==
    /\ ws' = Append(ws, wrapper)
    /\ last' = Call(op, 0, args, FALSE, wrapper.value, Enter(wrapper.chain),
                    Len(ws) + 1)
    /\ UNCHANGED <<reporter, expect>>

\* Faulty variant: a wrapper shares its chain with its parent and its children.
Return_SharedChain(op, w, args, ctx) ==
    /\ ws' = [i \in DOMAIN ws |->
                IF i = w \/ i = ws[w].parent \/ ws[i].parent = w
                THEN [ws[i] EXCEPT !.chain = ctx.chain]
                ELSE ws[i]]
    /\ last' = Call(op, w, args, ws[w].chain.failed, ws[w].value, ctx, w)
    /\ UNCHANGED <<reporter, expect>>

\* A method of wrapper w ran to ctx and returned its receiver.
Return(op, w, args, ctx) ==
    /\ ws' = [ws EXCEPT ![w].chain = ctx.chain]
    /\ last' = Call(op, w, args, ws[w].chain.failed, ws[w].value, ctx, w)
    /\ UNCHANGED <<reporter, expect>>

Float64s == {F64(FALSE, 1), F64(FALSE, 2), NaN}

Operands ==
    {Arg("int32", 1, FALSE), Arg("float64", 2, FALSE), Arg("float32", 1, FALSE),
     Arg("float64", 0, TRUE), StrArg("x")}

Numbers == {w \in DOMAIN ws : ws[w].type = "Number"}

Booleans == {w \in DOMAIN ws : ws[w].type = "Boolean"}

\* The Number that NewNumber(r, value) returns, the Boolean of NewBoolean.
MakeNumber(r, value) == Wrapper("Number", makeChain(r), NumberValue(value), 0)

MakeBoolean(r, value) == Wrapper("Boolean", makeChain(r), BoolValue(value), 0)

NewNumber ==
    \E value \in Float64s :
        /\ Len(ws) < MaxWrappers
        /\ Construct("NewNumber", MakeNumber(reporter, value),
                     <<Arg("float64", value.h, value.nan)>>)

NewBoolean ==
    \E value \in BOOLEAN :
        /\ Len(ws) < MaxWrappers
        /\ Construct("NewBoolean", MakeBoolean(reporter, value),
                     <<BoolArg(value)>>)

Equal ==
    \E w \in Numbers, value \in Operands :
        Return("Number.Equal", w, <<value>>, NumberEqual(ws[w], value))

NotEqual ==
    \E w \in Numbers, value \in Operands :
        Return("Number.NotEqual", w, <<value>>, NumberNotEqual(ws[w], value))

Gt ==
    \E w \in Numbers, value \in Operands :
        Return("Number.Gt", w, <<value>>, NumberGt(ws[w], value))

Ge ==
    \E w \in Numbers, value \in Operands :
        Return("Number.Ge", w, <<value>>, NumberGe(ws[w], value))

Lt ==
    \E w \in Numbers, value \in Operands :
        Return("Number.Lt", w, <<value>>, NumberLt(ws[w], value))

Le ==
    \E w \in Numbers, value \in Operands :
        Return("Number.Le", w, <<value>>, NumberLe(ws[w], value))

InRange ==
    \E w \in Numbers, min \in Operands, max \in Operands :
        Return("Number.InRange", w, <<min, max>>, NumberInRange(ws[w], min, max))

BoolEqual ==
    \E w \in Booleans, value \in BOOLEAN :
        Return("Boolean.Equal", w, <<BoolArg(value)>>, BooleanEqual(ws[w], value))

BoolNotEqual ==
    \E w \in Booleans, value \in BOOLEAN :
        Return("Boolean.NotEqual", w, <<BoolArg(value)>>,
               BooleanNotEqual(ws[w], value))

True ==
    \E w \in Booleans :
        Return("Boolean.True", w, <<>>, BooleanTrue(ws[w]))

False ==
    \E w \in Booleans :
        Return("Boolean.False", w, <<>>, BooleanFalse(ws[w]))

(***************************************************************************)
(* The decoded document a Value wraps, and the wrappers derived from it.   *)
(* Node 0 is nil (the zero payload); nodes 1 to 5 are those of             *)
(* {"foo": ["bar", 1, false]}, node 6 is the document true.                *)
(***************************************************************************)

Node(kind, f, b, elems, keys) ==
    [kind |-> kind, f |-> f, b |-> b, elems |-> elems, keys |-> keys]

Data ==
    <<Node("object", F64(FALSE, 0), FALSE, <<2>>, <<"foo">>),
      Node("array", F64(FALSE, 0), FALSE, <<3, 4, 5>>, <<>>),
      Node("string", F64(FALSE, 0), FALSE, <<>>, <<>>),
      Node("number", F64(FALSE, 2), FALSE, <<>>, <<>>),
      Node("boolean", F64(FALSE, 0), FALSE, <<>>, <<>>),
      Node("boolean", F64(FALSE, 0), TRUE, <<>>, <<>>)>>

Nil == Node("null", F64(FALSE, 0), FALSE, <<>>, <<>>)

At(id) == IF id = 0 THEN Nil ELSE Data[id]

\* The payload a typed wrapper of `kind` holds for node id.
Payload(kind, id) ==
    CASE kind = "number" -> NumberValue(At(id).f)
      [] kind = "boolean" -> BoolValue(At(id).b)
      [] OTHER -> NodeValue(id)

\* Faulty variant: the kind of the payload is not checked.
Narrow_Unchecked(v, kind) ==
    [ctx |-> Enter(v.chain), value |-> Payload(kind, v.value.node)]

\* Value.Object(), Array(), String(), Number(), Boolean(): the typed wrapper
\* over the same payload when the kind matches; else the chain fails and
\* the wrapper holds the zero payload.  A failed Value skips the check.
Narrow(v, kind) ==
    IF v.chain.failed
    THEN [ctx |-> Enter(v.chain), value |-> Payload(kind, 0)]
    ELSE IF At(v.value.node).kind = kind
    THEN [ctx |-> Enter(v.chain), value |-> Payload(kind, v.value.node)]
    ELSE [ctx |-> fail(Enter(v.chain)), value |-> Payload(kind, 0)]

\* Array.Element(index): the Value of the element; an index out of range
\* fails the chain and gives a Value of nil.
ArrayElement(a, index) ==
    LET elems == At(a.value.node).elems IN
    IF a.chain.failed
    THEN [ctx |-> Enter(a.chain), value |-> NodeValue(0)]
    ELSE IF index < 0 \/ index >= Len(elems)
    THEN [ctx |-> fail(Enter(a.chain)), value |-> NodeValue(0)]
    ELSE [ctx |-> Enter(a.chain), value |-> NodeValue(elems[index + 1])]

\* Object.Value(key): the Value of the entry; an absent key fails the chain.
ObjectValue(o, key) ==
    LET n == At(o.value.node)
        at == {i \in DOMAIN n.keys : n.keys[i] = key} IN
    IF o.chain.failed
    THEN [ctx |-> Enter(o.chain), value |-> NodeValue(0)]
    ELSE IF at = {}
    THEN [ctx |-> fail(Enter(o.chain)), value |-> NodeValue(0)]
    ELSE [ctx |-> Enter(o.chain), value |-> NodeValue(n.elems[CHOOSE i \in at : TRUE])]

\* Faulty variant: the child starts with a fresh chain.
childChain_Fresh(c) == makeChain(c.reporter)

\* The child's chain is a copy of the parent's as the call left it.
childChain(c) == [reporter |-> c.reporter, failed |-> c.failed]

\* A method of wrapper w ran to r.ctx and returned a new wrapper.
Derive(op, w, args, type, r) ==
    /\ Len(ws) < MaxDerived
    /\ ws' = Append([ws EXCEPT ![w].chain = r.ctx.chain],
                    Wrapper(type, childChain(r.ctx.chain), r.value, w))
    /\ last' = Call(op, w, args, ws[w].chain.failed, ws[w].value, r.ctx,
                    Len(ws) + 1)
    /\ UNCHANGED <<reporter, expect>>

Roots == {w \in DOMAIN ws : ws[w].parent = 0}

Values == {w \in DOMAIN ws : ws[w].type = "Value"}

Arrays == {w \in DOMAIN ws : ws[w].type = "Array"}

Objects == {w \in DOMAIN ws : ws[w].type = "Object"}

Indexes == {0, 1, 2, 999}

Keys == {"foo", "qux"}

\* The wrappers that NewValue, NewObject, NewArray and NewString return for
\* reporter r and the decoded value at node.
MakeValue(r, node) == Wrapper("Value", makeChain(r), NodeValue(node), 0)

MakeObject(r, node) == Wrapper("Object", makeChain(r), NodeValue(node), 0)

MakeArray(r, node) == Wrapper("Array", makeChain(r), NodeValue(node), 0)

MakeString(r, node) == Wrapper("String", makeChain(r), NodeValue(node), 0)

DocArg(node) == Arg("document", node, FALSE)

NewValue ==
    \E node \in DOMAIN Data :
        /\ Len(ws) < MaxDerived
        /\ Cardinality(Values \cap Roots) < MaxValues
        /\ Construct("NewValue", MakeValue(reporter, node), <<DocArg(node)>>)

Object ==
    \E w \in Values :
        Derive("Value.Object", w, <<>>, "Object", Narrow(ws[w], "object"))

Array ==
    \E w \in Values :
        Derive("Value.Array", w, <<>>, "Array", Narrow(ws[w], "array"))

String ==
    \E w \in Values :
        Derive("Value.String", w, <<>>, "String", Narrow(ws[w], "string"))

Number ==
    \E w \in Values :
        Derive("Value.Number", w, <<>>, "Number", Narrow(ws[w], "number"))

Boolean ==
    \E w \in Values :
        Derive("Value.Boolean", w, <<>>, "Boolean", Narrow(ws[w], "boolean"))

Element ==
    \E w \in Arrays, index \in Indexes :
        Derive("Array.Element", w, <<Arg("int", index, FALSE)>>, "Value",
               ArrayElement(ws[w], index))

Value ==
    \E w \in Objects, key \in Keys :
        Derive("Object.Value", w, <<StrArg(key)>>, "Value",
               ObjectValue(ws[w], key))

(***************************************************************************)
(* Expect (expect.go): WithConfig, the Request shorthands and the          *)
(* shorthands of the wrappers' constructors.                               *)
(***************************************************************************)

\* Faulty variant: a nil Client is kept.
WithConfig_KeepsNilClient(config) ==
    IF config.Reporter = NoReporter
    THEN [panic |-> TRUE, e |-> NoExpect]
    ELSE [panic |-> FALSE, e |-> Expect(config)]

\* WithConfig: a nil Client becomes http.DefaultClient, then a nil Reporter
\* panics; else the Expect holding the config is returned.
WithConfig(config) ==
    LET c == IF config.Client = NoClient
             THEN [config EXCEPT !.Client = DefaultClient]
             ELSE config
    IN  IF c.Reporter = NoReporter
        THEN [panic |-> TRUE, e |-> NoExpect]
        ELSE [panic |-> FALSE, e |-> Expect(c)]

\* NewRequest(config, method, url): the Request of that config, method, url.
NewRequest(config, method, url) == Request(config, method, url)

ExpectRequest(e, method, url) == NewRequest(e.config, method, url)

ExpectOPTIONS(e, url) == NewRequest(e.config, "OPTIONS", url)

ExpectHEAD(e, url) == NewRequest(e.config, "HEAD", url)

ExpectGET(e, url) == NewRequest(e.config, "GET", url)

ExpectPOST(e, url) == NewRequest(e.config, "POST", url)

ExpectPUT(e, url) == NewRequest(e.config, "PUT", url)

\* Faulty variant: PATCH copied from PUT with the method left as it was.
ExpectPATCH_CopiedPUT(e, url) == NewRequest(e.config, "PUT", url)

ExpectPATCH(e, url) == NewRequest(e.config, "PATCH", url)

ExpectDELETE(e, url) == NewRequest(e.config, "DELETE", url)

ExpectValue(e, value) == MakeValue(e.config.Reporter, value)

ExpectObject(e, value) == MakeObject(e.config.Reporter, value)

ExpectArray(e, value) == MakeArray(e.config.Reporter, value)

ExpectString(e, value) == MakeString(e.config.Reporter, value)

\* Faulty variant: the configured reporter is not passed on.
ExpectNumber_NoReporter(e, value) == MakeNumber(NoReporter, value)

ExpectNumber(e, value) == MakeNumber(e.config.Reporter, value)

ExpectBoolean(e, value) == MakeBoolean(e.config.Reporter, value)

\* The configs a test passes: the one of the tests, the one of WithConfig's
\* example, the one New builds, and ones with a nil Client or Reporter.
Configs ==
    {Config("", "mockClient", reporter, <<>>),
     Config("http://example.org/", DefaultClient, "AssertReporter",
            <<"CurlPrinter", "DebugPrinter">>),
     Config("http://example.org/", NoClient, "AssertReporter",
            <<"CompactPrinter">>),
     Config("", NoClient, reporter, <<>>),
     Config("", NoClient, NoReporter, <<>>),
     Config("http://example.org/", "mockClient", NoReporter,
            <<"CompactPrinter">>)}

Methods == {"METHOD", "get"}

URLs == {"/url", "/path", "/"}

\* The documents given to Expect.Value, and the nodes of a kind.
Documents == {1, 6}

NodesOf(kind) == {id \in DOMAIN Data : Data[id].kind = kind}

\* e := WithConfig(config): a panic leaves e as it was.
CallWithConfig ==
    \E config \in Configs :
        LET r == WithConfig(config) IN
        /\ expect' = IF r.panic THEN expect ELSE r.e
        /\ last' = [Call("WithConfig", 0, <<config>>, FALSE, NodeValue(0),
                         Enter(makeChain(config.Reporter)), 0)
                      EXCEPT !.e = r.e, !.panic = r.panic]
        /\ UNCHANGED <<reporter, ws>>

\* A method of the Expect e built the Request req.
Built(op, args, req) ==
    /\ ~expect.nil
    /\ last' = [Call(op, 0, args, FALSE, NodeValue(0),
                     Enter(makeChain(expect.config.Reporter)), 0)
                  EXCEPT !.e = expect, !.req = req]
    /\ UNCHANGED <<reporter, ws, expect>>

DoRequest ==
    \E method \in Methods, url \in URLs :
        Built("Expect.Request", <<StrArg(method), StrArg(url)>>,
              ExpectRequest(expect, method, url))

OPTIONS ==
    \E url \in URLs :
        Built("Expect.OPTIONS", <<StrArg(url)>>, ExpectOPTIONS(expect, url))

HEAD ==
    \E url \in URLs :
        Built("Expect.HEAD", <<StrArg(url)>>, ExpectHEAD(expect, url))

GET ==
    \E url \in URLs :
        Built("Expect.GET", <<StrArg(url)>>, ExpectGET(expect, url))

POST ==
    \E url \in URLs :
        Built("Expect.POST", <<StrArg(url)>>, ExpectPOST(expect, url))

PUT ==
    \E url \in URLs :
        Built("Expect.PUT", <<StrArg(url)>>, ExpectPUT(expect, url))

PATCH ==
    \E url \in URLs :
        Built("Expect.PATCH", <<StrArg(url)>>, ExpectPATCH(expect, url))

DELETE ==
    \E url \in URLs :
        Built("Expect.DELETE", <<StrArg(url)>>, ExpectDELETE(expect, url))

\* A method of the Expect e returned a new root wrapper.
Root(op, arg, wrapper) ==
    /\ ~expect.nil
    /\ Len(ws) < MaxWrappers
    /\ ws' = Append(ws, wrapper)
    /\ last' = [Call(op, 0, <<arg>>, FALSE, wrapper.value, Enter(wrapper.chain),
                     Len(ws) + 1)
                  EXCEPT !.e = expect]
    /\ UNCHANGED <<reporter, expect>>

RootValue ==
    \E value \in Documents :
        Root("Expect.Value", DocArg(value), ExpectValue(expect, value))

RootObject ==
    \E value \in NodesOf("object") :
        Root("Expect.Object", DocArg(value), ExpectObject(expect, value))

RootArray ==
    \E value \in NodesOf("array") :
        Root("Expect.Array", DocArg(value), ExpectArray(expect, value))

RootString ==
    \E value \in NodesOf("string") :
        Root("Expect.String", DocArg(value), ExpectString(expect, value))

RootNumber ==
    \E value \in Float64s :
        Root("Expect.Number", Arg("float64", value.h, value.nan),
             ExpectNumber(expect, value))

RootBoolean ==
    \E value \in BOOLEAN :
        Root("Expect.Boolean", BoolArg(value), ExpectBoolean(expect, value))

\* Runs of the checks on Numbers and Booleans made by their constructors.
Next ==
    \/ NewNumber
    \/ NewBoolean
    \/ Equal
    \/ NotEqual
    \/ Gt
    \/ Ge
    \/ Lt
    \/ Le
    \/ InRange
    \/ BoolEqual
    \/ BoolNotEqual
    \/ True
    \/ False

Spec == Init /\ [][Next]_vars

\* Runs over decoded documents: Values, the wrappers derived from them, and
\* the checks on the Numbers and Booleans reached.
NextDerived ==
    \/ NewValue
    \/ Object
    \/ Array
    \/ String
    \/ Number
    \/ Boolean
    \/ Element
    \/ Value
    \/ Equal
    \/ NotEqual
    \/ Gt
    \/ Ge
    \/ Lt
    \/ Le
    \/ InRange
    \/ BoolEqual
    \/ BoolNotEqual
    \/ True
    \/ False

SpecDerived == Init /\ [][NextDerived]_vars

\* Runs of a test that makes its Expect and builds Requests with it.
NextExpect ==
    \/ CallWithConfig
    \/ DoRequest
    \/ OPTIONS
    \/ HEAD
    \/ GET
    \/ POST
    \/ PUT
    \/ PATCH
    \/ DELETE

SpecExpect == Init /\ [][NextExpect]_vars

\* Runs of a test that makes its Expect and root wrappers with it, and calls
\* True() on the Booleans.
NextRoots ==
    \/ CallWithConfig
    \/ RootValue
    \/ RootObject
    \/ RootArray
    \/ RootString
    \/ RootNumber
    \/ RootBoolean
    \/ True

SpecRoots == Init /\ [][NextRoots]_vars

(***************************************************************************)
(* What the claims speak of.                                               *)
(***************************************************************************)

CompareOps ==
    {"Number.Equal", "Number.NotEqual", "Number.Gt", "Number.Ge", "Number.Lt",
     "Number.Le"}

NumberOps == CompareOps \cup {"Number.InRange"}

BooleanOps == {"Boolean.Equal", "Boolean.NotEqual", "Boolean.True", "Boolean.False"}

AssertOps == NumberOps \cup BooleanOps

NarrowOps ==
    {"Value.Object", "Value.Array", "Value.String", "Value.Number", "Value.Boolean"}

DeriveOps == NarrowOps \cup {"Array.Element", "Object.Value"}

Constructors == {"NewNumber", "NewBoolean", "NewValue"}

Numeric(a) == a.type \in IntTypes \cup FloatTypes

\* The relation a comparison asserts between the payload n and the value v.
Rel(op, n, v) ==
    CASE op = "Number.Equal" -> FEq(n, v)
      [] op = "Number.NotEqual" -> ~FEq(n, v)
      [] op = "Number.Gt" -> FGt(n, v)
      [] op = "Number.Ge" -> FGt(n, v) \/ FEq(n, v)
      [] op = "Number.Lt" -> FLt(n, v)
      [] op = "Number.Le" -> FLt(n, v) \/ FEq(n, v)

KindOf(op) ==
    CASE op = "Value.Object" -> "object"
      [] op = "Value.Array" -> "array"
      [] op = "Value.String" -> "string"
      [] op = "Value.Number" -> "number"
      [] op = "Value.Boolean" -> "boolean"

TypeOf(op) ==
    CASE op = "Value.Object" -> "Object"
      [] op = "Value.Array" -> "Array"
      [] op = "Value.String" -> "String"
      [] op = "Value.Number" -> "Number"
      [] op = "Value.Boolean" -> "Boolean"

\* The check of call c is satisfied: its operands are valid and what it
\* asserts of the receiver's payload is true.
Satisfied(c) ==
    CASE c.op \in CompareOps ->
            Numeric(c.args[1]) /\ Rel(c.op, c.value, ToFloat64(c.args[1]))
      [] c.op = "Number.InRange" ->
            /\ Numeric(c.args[1])
            /\ Numeric(c.args[2])
            /\ Rel("Number.Ge", c.value, ToFloat64(c.args[1]))
            /\ Rel("Number.Le", c.value, ToFloat64(c.args[2]))
      [] c.op = "Boolean.Equal" -> c.value.b = (c.args[1].i = 1)
      [] c.op = "Boolean.NotEqual" -> c.value.b # (c.args[1].i = 1)
      [] c.op = "Boolean.True" -> c.value.b
      [] c.op = "Boolean.False" -> ~c.value.b
      [] c.op \in NarrowOps -> At(c.value.node).kind = KindOf(c.op)
      [] c.op = "Array.Element" ->
            c.args[1].i >= 0 /\ c.args[1].i < Len(At(c.value.node).elems)
      [] c.op = "Object.Value" ->
            \E i \in DOMAIN At(c.value.node).keys :
                At(c.value.node).keys[i] = c.args[1].s
      [] OTHER -> TRUE

\* C1: once a chain is failed, a later assertion call on its wrapper makes
\* no further Errorf call, whatever the operand and the check's outcome.
C1_Suppression ==
    (last.op \in AssertOps /\ last.pre) => last.errorf = <<>>

\* C2: a violated check on a chain that is still ok makes exactly one Errorf
\* call, on the chain's reporter, leaves the chain failed, and returns its
\* wrapper: the receiver for an assertion, the new (failed) wrapper for a
\* narrowing or a navigation.
C2_ViolationReportedOnce ==
    (last.op \in AssertOps \cup DeriveOps /\ ~last.pre /\ ~Satisfied(last)) =>
        /\ last.errorf = <<ws[last.w].chain.reporter>>
        /\ ws[last.w].chain.failed
        /\ last.op \in AssertOps => last.ret = last.w
        /\ last.op \in DeriveOps =>
              /\ last.ret = Len(ws)
              /\ ws[last.ret].parent = last.w
              /\ ws[last.ret].chain.failed

C2_Witness ==
    /\ last.op = "Number.InRange"
    /\ ~last.pre
    /\ Numeric(last.args[1])
    /\ ~Numeric(last.args[2])
    /\ Len(last.errorf) = 1
    /\ ws[last.w].chain.failed

\* C3: failed is terminal: no step moves a chain from failed back to ok.
C3_FailedIsTerminal ==
    [][\A w \in DOMAIN ws : ws[w].chain.failed => ws'[w].chain.failed]_vars

C3_Witness ==
    /\ last.op \in AssertOps
    /\ last.pre
    /\ Satisfied(last)
    /\ ws[last.w].chain.failed

\* C4: a wrapper derived by narrowing or navigation has a chain whose failed
\* flag is the parent's at the moment of derivation and whose reporter is the
\* parent's; a child of an already failed wrapper starts failed; a root
\* wrapper made by a constructor starts ok.
C4_Inheritance ==
    /\ last.op \in DeriveOps =>
          /\ ws[last.ret].chain.failed = ws[last.w].chain.failed
          /\ ws[last.ret].chain.reporter = ws[last.w].chain.reporter
          /\ last.pre => ws[last.ret].chain.failed
    /\ last.op \in Constructors =>
          /\ ~ws[last.ret].chain.failed
          /\ ws[last.ret].chain.reporter = reporter
          /\ ws[last.ret].parent = 0

C4_Witness ==
    /\ last.op \in DeriveOps
    /\ last.pre
    /\ ws[last.ret].chain.failed
    /\ ws[last.ret].parent = last.w

\* C5: chains are isolated: a step changes the chain of no wrapper but the
\* receiver of the call, so a failure on a child reaches neither its parent
\* nor a sibling, and a failure on a parent no child derived before it.
C5_Isolation ==
    [][\A w \in DOMAIN ws : w # last'.w => ws'[w].chain = ws[w].chain]_vars

\* A parent still ok with one child failed and another, its sibling, ok.
C5_Witness ==
    \E i, j \in DOMAIN ws :
        /\ i # j
        /\ ws[i].parent # 0
        /\ ws[i].parent = ws[j].parent
        /\ ws[i].chain.failed
        /\ ~ws[j].chain.failed
        /\ ~ws[ws[i].parent].chain.failed

\* C6: narrowing a Value to a type whose kind differs from the payload's
\* kind fails the chain and returns a failed wrapper of the requested type;
\* when the kind matches and the Value is ok the wrapper is ok and carries
\* the same payload.
C6_Narrowing ==
    last.op \in NarrowOps =>
        LET v == ws[last.w]
            c == ws[last.ret]
            n == At(last.value.node)
        IN  /\ c.type = TypeOf(last.op)
            /\ n.kind # KindOf(last.op) => v.chain.failed /\ c.chain.failed
            /\ (n.kind = KindOf(last.op) /\ ~last.pre) =>
                  /\ ~c.chain.failed
                  /\ ~v.chain.failed
                  /\ last.errorf = <<>>
                  /\ c.value.node =
                        (IF n.kind \in {"number", "boolean"} THEN 0 ELSE last.value.node)
                  /\ c.value.h = n.f.h
                  /\ c.value.nan = n.f.nan
                  /\ c.value.b = n.b

C6_Witness ==
    /\ last.op = "Value.Number"
    /\ ~last.pre
    /\ At(last.value.node).kind = "string"
    /\ ws[last.ret].type = "Number"
    /\ ws[last.ret].chain.failed

\* C7: a Number check given an operand that is not numeric fails the chain,
\* compares the payload with nothing, and returns the same wrapper with the
\* same payload.
C7_NonNumericOperand ==
    (last.op \in NumberOps /\ \E k \in DOMAIN last.args : ~Numeric(last.args[k])) =>
        /\ ws[last.w].chain.failed
        /\ last.cmp = 0
        /\ last.ret = last.w
        /\ ws[last.w].value = last.value

C7_Witness ==
    /\ last.op = "Number.Gt"
    /\ ~last.pre
    /\ ~Numeric(last.args[1])
    /\ ws[last.w].chain.failed
    /\ last.cmp = 0

\* C8: on an ok Number with payload n and a numeric operand whose float64
\* value is v, each comparison leaves the chain ok iff its relation holds of
\* n and v, whatever the operand's type: Equal(int32(1)) and
\* Equal(float64(1)) both succeed on Number 1.
C8_Comparisons ==
    (last.op \in CompareOps /\ ~last.pre /\ Numeric(last.args[1])) =>
        /\ ~ws[last.w].chain.failed <=>
              Rel(last.op, last.value, ToFloat64(last.args[1]))
        /\ (/\ last.op = "Number.Equal"
            /\ last.value = NumberValue(F64(FALSE, 2))
            /\ last.args[1] \in {Arg("int32", 1, FALSE), Arg("float64", 2, FALSE)})
              => ~ws[last.w].chain.failed

C8_Witness ==
    /\ last.op = "Number.Equal"
    /\ ~last.pre
    /\ last.value = NumberValue(F64(FALSE, 2))
    /\ last.args[1] = Arg("int32", 1, FALSE)
    /\ ~ws[last.w].chain.failed

\* C9: InRange(min, max) on an ok Number with payload n and numeric bounds
\* leaves the chain ok iff min <= n <= max, both bounds inclusive; the bounds
\* are not validated, so with min > max it fails the chain for every n.
C9_InRange ==
    (/\ last.op = "Number.InRange"
     /\ ~last.pre
     /\ Numeric(last.args[1])
     /\ Numeric(last.args[2])) =>
        LET a == ToFloat64(last.args[1])
            b == ToFloat64(last.args[2])
        IN  /\ ~ws[last.w].chain.failed <=>
                  (Rel("Number.Le", a, last.value) /\ Rel("Number.Le", last.value, b))
            /\ FGt(a, b) => ws[last.w].chain.failed

\* InRange(n, n) succeeded.
C9_Witness ==
    /\ last.op = "Number.InRange"
    /\ ~last.pre
    /\ Numeric(last.args[1])
    /\ Numeric(last.args[2])
    /\ FEq(ToFloat64(last.args[1]), last.value)
    /\ FEq(ToFloat64(last.args[2]), last.value)
    /\ ~ws[last.w].chain.failed

\* C10: True() and False() do what Equal(true) and Equal(false) do, from an
\* ok or a failed chain and for either payload: the same chain, the same
\* Errorf calls, the same wrapper returned; Equal(v) leaves an ok chain ok iff
\* payload = v, NotEqual(v) iff payload # v.
C10_TrueFalseAreEqual ==
    LET b == [ws[last.w] EXCEPT !.chain.failed = last.pre]
        same(ctx) ==
            /\ ws[last.w].chain = ctx.chain
            /\ last.errorf = ctx.errorf
            /\ last.cmp = ctx.cmp
            /\ last.ret = last.w
    IN  /\ last.op = "Boolean.True" => same(BooleanEqual(b, TRUE))
        /\ last.op = "Boolean.False" => same(BooleanEqual(b, FALSE))
        /\ (last.op = "Boolean.Equal" /\ ~last.pre) =>
              (~ws[last.w].chain.failed <=> (last.value.b = (last.args[1].i = 1)))
        /\ (last.op = "Boolean.NotEqual" /\ ~last.pre) =>
              (~ws[last.w].chain.failed <=> (last.value.b # (last.args[1].i = 1)))

C10_Witness ==
    /\ last.op = "Boolean.True"
    /\ last.pre
    /\ ~last.value.b
    /\ Len(last.errorf) = 1

\* C11: an assertion method of Number or Boolean calls chain.fail at most
\* once in a call, and only when the chain was not already failed: on a
\* failed chain the check body is skipped (no canonicalization, no comparison,
\* no fail).
C11_FailOnlyWhenOk ==
    last.op \in AssertOps =>
        /\ Cardinality({i \in DOMAIN last.steps : last.steps[i].do = "fail"}) <= 1
        /\ last.pre => last.steps = <<>>

\* C12: in every assertion method of Number and Boolean a call of chain.fail
\* is the last step: no canonicalization, comparison or fail follows it, so
\* the steps taken are those of a run whose reporter ends the test in Errorf.
C12_FailIsLastStep ==
    last.op \in AssertOps =>
        \A i \in DOMAIN last.steps :
            last.steps[i].do = "fail" => i = Len(last.steps)

C12_Witness ==
    /\ last.op = "Number.Lt"
    /\ ~Numeric(last.args[1])
    /\ last.steps = <<Step("canon", last.args[1]), Step("fail", NoArg)>>

\* C13: the payload of a wrapper never changes: Raw() of a new Number or
\* Boolean is the value given to its constructor, and no step (an assertion
\* passing or failing, with valid or invalid operands, on an ok or a failed
\* chain) changes Raw() of any wrapper, nor anything of a wrapper but its
\* chain's failed flag.
C13_PayloadImmutable ==
    [][/\ last'.op = "NewNumber" =>
              NumberRaw(ws'[last'.ret]) = ToFloat64(last'.args[1])
       /\ last'.op = "NewBoolean" =>
              BooleanRaw(ws'[last'.ret]) = (last'.args[1].i = 1)
       /\ \A w \in DOMAIN ws :
              /\ ws[w].type = "Number" => NumberRaw(ws'[w]) = NumberRaw(ws[w])
              /\ ws[w].type = "Boolean" => BooleanRaw(ws'[w]) = BooleanRaw(ws[w])
              /\ ws'[w] = [ws[w] EXCEPT !.chain.failed = ws'[w].chain.failed]]_vars

\* A Number already failed was given a non-numeric bound and still holds NaN.
C13_Witness ==
    /\ last.op = "Number.InRange"
    /\ last.pre
    /\ ~Numeric(last.args[1])
    /\ NumberRaw(ws[last.w]) = NaN

RequestOps ==
    {"Expect.Request", "Expect.OPTIONS", "Expect.HEAD", "Expect.GET",
     "Expect.POST", "Expect.PUT", "Expect.PATCH", "Expect.DELETE"}

RootOps ==
    {"Expect.Value", "Expect.Object", "Expect.Array", "Expect.String",
     "Expect.Number", "Expect.Boolean"}

\* The method a Request built by call c must have.
MethodOf(c) ==
    CASE c.op = "Expect.Request" -> c.args[1].s
      [] c.op = "Expect.OPTIONS" -> "OPTIONS"
      [] c.op = "Expect.HEAD" -> "HEAD"
      [] c.op = "Expect.GET" -> "GET"
      [] c.op = "Expect.POST" -> "POST"
      [] c.op = "Expect.PUT" -> "PUT"
      [] c.op = "Expect.PATCH" -> "PATCH"
      [] c.op = "Expect.DELETE" -> "DELETE"

\* The type and the payload of the wrapper that call c of a constructor
\* shorthand must return.
RootType(c) ==
    CASE c.op = "Expect.Value" -> "Value"
      [] c.op = "Expect.Object" -> "Object"
      [] c.op = "Expect.Array" -> "Array"
      [] c.op = "Expect.String" -> "String"
      [] c.op = "Expect.Number" -> "Number"
      [] c.op = "Expect.Boolean" -> "Boolean"

RootPayload(c) ==
    CASE c.op = "Expect.Number" ->
            [node |-> 0, nan |-> c.args[1].nan, h |-> c.args[1].i, b |-> FALSE]
      [] c.op = "Expect.Boolean" ->
            [node |-> 0, nan |-> FALSE, h |-> 0, b |-> (c.args[1].i = 1)]
      [] OTHER ->
            [node |-> c.args[1].i, nan |-> FALSE, h |-> 0, b |-> FALSE]

\* C14: WithConfig(config) with a non-nil Reporter returns an Expect whose
\* config is the given one but for a nil Client, replaced by
\* http.DefaultClient (a non-nil Client, BaseURL, Reporter and Printers are
\* kept); with a nil Reporter it panics and returns no Expect, whatever the
\* other fields.
C14_WithConfig ==
    last.op = "WithConfig" =>
        LET config == last.args[1] IN
        /\ config.Reporter # NoReporter =>
              /\ ~last.panic
              /\ ~last.e.nil
              /\ expect = last.e
              /\ last.e.config.Client =
                    (IF config.Client = NoClient THEN DefaultClient
                     ELSE config.Client)
              /\ last.e.config.BaseURL = config.BaseURL
              /\ last.e.config.Reporter = config.Reporter
              /\ last.e.config.Printers = config.Printers
        /\ config.Reporter = NoReporter => last.panic /\ last.e.nil

\* A config with a nil Client gave an Expect using http.DefaultClient.
C14_Witness ==
    /\ last.op = "WithConfig"
    /\ last.args[1].Client = NoClient
    /\ last.args[1].Reporter # NoReporter
    /\ ~last.panic
    /\ expect.config.Client = DefaultClient
    /\ expect.config.Printers = <<"CompactPrinter">>

\* C15: Expect.Value, Object, Array, String, Number and Boolean each return
\* a new root wrapper of their type: a fresh chain, ok, bound to the
\* Expect's configured reporter, carrying the given payload; making it
\* changes no wrapper made earlier.
C15_RootWrappers ==
    [][last'.op \in RootOps =>
          /\ ~expect.nil
          /\ last'.e = expect
          /\ Len(ws') = Len(ws) + 1
          /\ last'.ret = Len(ws')
          /\ \A w \in DOMAIN ws : ws'[w] = ws[w]
          /\ ws'[last'.ret].type = RootType(last')
          /\ ws'[last'.ret].parent = 0
          /\ ws'[last'.ret].chain.reporter = expect.config.Reporter
          /\ ~ws'[last'.ret].chain.failed
          /\ ws'[last'.ret].value = RootPayload(last')]_vars

\* A Number made by an Expect after a Boolean of the same Expect failed.
C15_Witness ==
    /\ last.op = "Expect.Number"
    /\ last.ret = 2
    /\ ws[1].type = "Boolean"
    /\ ws[1].chain.failed
    /\ ~ws[2].chain.failed
    /\ ws[1].chain.reporter = "AssertReporter"
    /\ ws[2].chain.reporter = "AssertReporter"

\* C16: each HTTP-method shorthand of Expect builds a Request with its own
\* name as the method, Request(method, url) one with the given method
\* unchanged, all with the Expect's config and the given url; building a
\* Request leaves the Expect as it was.
C16_RequestMethods ==
    [][last'.op \in RequestOps =>
          /\ ~expect.nil
          /\ expect' = expect
          /\ ~last'.req.nil
          /\ last'.req.method = MethodOf(last')
          /\ last'.req.config = expect.config
          /\ last'.req.url = last'.args[Len(last'.args)].s]_vars

C16_Witness ==
    /\ last.op = "Expect.PATCH"
    /\ last.req.method = "PATCH"
    /\ last.req.config = expect.config
    /\ expect.config.Client = "mockClient"

\* C17: InRange canonicalizes min, then max, and stops at the first that is
\* not numeric: with a non-numeric min, max is never canonicalized.  So one
\* call on an ok chain makes exactly one Errorf call when min is not
\* numeric, when only max is not, when neither is, and when both are and the
\* payload is out of range; and never more than one.
C17_InRangeOrder ==
    last.op = "Number.InRange" =>
        LET min == last.args[1]
            max == last.args[2]
        IN  /\ last.steps[1] = Step("canon", min)
            /\ ~Numeric(min) =>
                  last.steps = <<Step("canon", min), Step("fail", NoArg)>>
            /\ (Numeric(min) /\ ~Numeric(max)) =>
                  last.steps = <<Step("canon", min), Step("canon", max),
                                 Step("fail", NoArg)>>
            /\ (Numeric(min) /\ Numeric(max)) =>
                  /\ last.steps[2] = Step("canon", max)
                  /\ last.steps[3] = Step("cmp", NoArg)
            /\ ~last.pre =>
                  /\ Len(last.errorf) <= 1
                  /\ (~Numeric(min) \/ ~Numeric(max) \/ ~Satisfied(last)) =>
                        last.errorf = <<ws[last.w].chain.reporter>>

\* Neither bound was numeric: one canonicalization, one report.
C17_Witness ==
    /\ last.op = "Number.InRange"
    /\ ~last.pre
    /\ ~Numeric(last.args[1])
    /\ ~Numeric(last.args[2])
    /\ last.canon = 1
    /\ Len(last.errorf) = 1

\* C18: a check that holds changes nothing: a Number or Boolean assertion
\* called on an ok chain with valid operands whose relation is true leaves
\* the chain ok, makes no Errorf call, leaves every wrapper (payloads
\* included) as it was and returns its receiver.
C18_PassingCheckChangesNothing ==
    [][(last'.op \in AssertOps /\ ~last'.pre /\ Satisfied(last')) =>
          /\ ws' = ws
          /\ ~ws'[last'.w].chain.failed
          /\ last'.errorf = <<>>
          /\ last'.ret = last'.w]_vars

\* NotEqual held of a NaN payload.
C18_Witness ==
    /\ last.op = "Number.NotEqual"
    /\ ~last.pre
    /\ last.value.nan
    /\ Satisfied(last)
    /\ ~ws[last.w].chain.failed
    /\ last.cmp = 1

ComplementOps == CompareOps \cup BooleanOps

OrderOps == {"Number.Gt", "Number.Ge", "Number.Lt", "Number.Le"}

\* Whether the check complementary to that of call c fails the chain of w.
ComplementFails(c, w) ==
    CASE c.op = "Number.Equal" -> NumberNotEqual(w, c.args[1]).chain.failed
      [] c.op = "Number.NotEqual" -> NumberEqual(w, c.args[1]).chain.failed
      [] c.op = "Number.Gt" -> NumberLe(w, c.args[1]).chain.failed
      [] c.op = "Number.Le" -> NumberGt(w, c.args[1]).chain.failed
      [] c.op = "Number.Lt" -> NumberGe(w, c.args[1]).chain.failed
      [] c.op = "Number.Ge" -> NumberLt(w, c.args[1]).chain.failed
      [] c.op = "Boolean.Equal" ->
            BooleanNotEqual(w, c.args[1].i = 1).chain.failed
      [] c.op = "Boolean.NotEqual" ->
            BooleanEqual(w, c.args[1].i = 1).chain.failed
      [] c.op = "Boolean.True" -> BooleanFalse(w).chain.failed
      [] c.op = "Boolean.False" -> BooleanTrue(w).chain.failed

\* The last call was a check with a complement, made on an ok chain with a
\* numeric operand (if it takes one).
Complemented ==
    /\ last.op \in ComplementOps
    /\ ~last.pre
    /\ last.op \in CompareOps => Numeric(last.args[1])

\* The receiver of the last call as it was when fresh: same payload, ok.
FreshReceiver == [ws[last.w] EXCEPT !.chain.failed = FALSE]

\* C19 (as claimed): of a check and its complement (Equal and NotEqual, Gt
\* and Le, Lt and Ge, True and False), each applied to a fresh ok wrapper
\* of the same payload with the same numeric operand, exactly one fails the
\* chain.
C19_Complementary ==
    Complemented =>
        (ws[last.w].chain.failed # ComplementFails(last, FreshReceiver))

\* C19 (amended): exactly one of a check and its complement fails the chain,
\* except that when the payload or the operand is NaN all of Gt, Ge, Lt and
\* Le fail (Equal then fails and NotEqual holds).
C19_ComplementaryButNaN ==
    Complemented =>
        IF /\ last.op \in OrderOps
           /\ (last.value.nan \/ ToFloat64(last.args[1]).nan)
        THEN ws[last.w].chain.failed /\ ComplementFails(last, FreshReceiver)
        ELSE ws[last.w].chain.failed # ComplementFails(last, FreshReceiver)

\* Gt with a NaN operand failed on a payload of 1.0, as Le does.
C19_Witness ==
    /\ last.op = "Number.Gt"
    /\ ~last.pre
    /\ last.args[1] = Arg("float64", 0, TRUE)
    /\ last.value = NumberValue(F64(FALSE, 2))
    /\ ws[last.w].chain.failed
    /\ ComplementFails(last, FreshReceiver)

====
